---- MODULE Spec2Model ----
(***************************************************************************)
(* The image routes of PictoPy's backend (backend/app/routes/images.py):   *)
(* GET / (get_all_images), POST /toggle-favourite (toggle_favourite) and   *)
(* GET /download/{image_id} (download_image), run by a pool of workers     *)
(* against one image repository and one filesystem.                        *)
(*                                                                         *)
(* A Python dict is a TLA+ function whose DOMAIN is the dict's keys, so a  *)
(* record "lacking the isFavourite field" is a function without that key.  *)
(* An Optional[bool] is a sequence of length 0 (None) or 1.  A string that *)
(* the code takes apart (a path) is a sequence of one-character strings.   *)
(***************************************************************************)
EXTENDS Integers, Sequences, FiniteSets, Bags, TLC

\* Bounds of the model.
MaxImages == 2
MaxWorkers == 2
MaxListed == 3
MaxPathLen == 3

VARIABLES
    repo,   \* the repository's image records, in the repository's order
    used,   \* the ids the repository has ever given to a record
    disk,   \* the paths that exist on the filesystem
    calls,  \* the toggle_favourite calls between their two steps: a bag of locals
    resp,   \* the response the last step produced, with what its handler saw
    hist    \* the run of back-to-back toggle calls the execution ends with

vars == <<repo, used, disk, calls, resp, hist>>

\* The handlers are sync functions run on a pool of workers: a request is
\* taken when a worker is free, and which worker takes it makes no difference.
FreeWorker == BagCardinality(calls) < MaxWorkers

\* The bag of f[c] for the calls c of bag B.
BagImage(f, B) ==
    LET S == BagToSet(B)
    IN [y \in {f[x] : x \in S} |->
          Cardinality({<<x, k>> \in S \X (1..MaxWorkers) : f[x] = y /\ k <= B[x]})]

\* Another step ran since the call's toggle.
Interrupted(c) == [c EXCEPT !.solo = FALSE]
\* Another call toggled image_id since the call's toggle.
Overtaken(c, image_id) ==
    IF c.image_id = image_id
    THEN [c EXCEPT !.flips = ~c.flips, !.solo = FALSE]
    ELSE Interrupted(c)

\* The calls in flight after a step of something else, and after another
\* call's toggle of image_id.
InterruptAll(B) == BagImage([c \in BagToSet(B) |-> Interrupted(c)], B)
OvertakeAll(B, image_id) == BagImage([c \in BagToSet(B) |-> Overtaken(c, image_id)], B)
Ids == 1..MaxImages
\* image_id values a request can carry: 0 is an id the repository never holds.
RequestIds == 0..MaxImages

None == [isNone |-> TRUE]

\* No response is in flight.
NoResponse == [kind |-> "none", status |-> 0, events |-> <<>>]

-----------------------------------------------------------------------------
(* Paths *)

Sep == "/"
BackSep == "\\"
NameChars == {"p", "q"}
PathChars == NameChars \cup {Sep, BackSep}

\* The stored path of an image: one directory, either separator.
StoredPath(id) == <<"d", IF id % 2 = 1 THEN Sep ELSE BackSep, ToString(id)>>

\* Every string over PathChars of length 1..MaxPathLen.
AllPaths == UNION {[1..n -> PathChars] : n \in 1..MaxPathLen}

\* str.replace("\\", "/")
ReplaceBackslashIdentity(p) == p
ReplaceBackslash(p) == [i \in 1..Len(p) |-> IF p[i] = BackSep THEN Sep ELSE p[i]]

\* posixpath.basename: i = p.rfind("/") + 1; return p[i:]
RFind(p, ch) ==
    LET hits == {i \in 1..Len(p) : p[i] = ch}
    IN IF hits = {} THEN 0 ELSE CHOOSE i \in hits : \A j \in hits : j <= i
Basename(p) == SubSeq(p, RFind(p, Sep) + 1, Len(p))

\* filename = os.path.basename(file_path.replace("\\", "/"))
FilenameOf(file_path) == Basename(ReplaceBackslash(file_path))

-----------------------------------------------------------------------------
(* Dicts, exceptions *)

\* dict.get(key, default)
GetDefaultTrue(d, key, default) == IF key \in DOMAIN d THEN d[key] ELSE TRUE
Get(d, key, default) == IF key \in DOMAIN d THEN d[key] ELSE default

Return(v) == [raised |-> FALSE, value |-> v]
Raise(type, status) == [raised |-> TRUE, type |-> type, status |-> status]

\* next((img for img in images if img["id"] == image_id), None)
FindFirstAny(images, image_id) ==
    IF images = <<>> THEN None ELSE images[1]
FindById(images, image_id) ==
    LET hits == {i \in 1..Len(images) : images[i].id = image_id}
    IN IF hits = {} THEN None
       ELSE images[CHOOSE i \in hits : \A j \in hits : i <= j]

-----------------------------------------------------------------------------
(* The collaborators: the repository (app.database.images) and the         *)
(* metadata normalizer (app.utils.images)                                  *)

RequiredMeta == {"name", "width", "height", "file_location", "file_size", "item_type"}

\* Raw metadata is the set of fields the stored record has.
MetaFamily == {RequiredMeta, RequiredMeta \ {"name"}}

\* image_util_parse_metadata: fails when a required field is missing, and
\* fills no absent optional field with a value.
ParseMetadata(raw) ==
    IF RequiredMeta \subseteq raw THEN Return(raw) ELSE Raise("ValidationError", 0)

\* The isFavourite flag as stored: false when the record has none.
StoredFav(r) == IF "isFavourite" \in DOMAIN r THEN r.isFavourite ELSE FALSE

WithFav(r, f) ==
    [id |-> r.id, path |-> r.path, isTagged |-> r.isTagged,
     metadata |-> r.metadata, isFavourite |-> f]

\* The records ingestion can create for an id.  Each specification ingests
\* the records that differ in what its handlers read.
Record(id, path, t, m) == [id |-> id, path |-> path, isTagged |-> t, metadata |-> m]
WithAnyFav(bare) == bare \cup {WithFav(r, f) : r \in bare, f \in BOOLEAN}

ToggleFamily(id) ==
    WithAnyFav({Record(id, StoredPath(id), FALSE, RequiredMeta)})
CoreFamily(id) ==
    ToggleFamily(id) \cup {Record(id, StoredPath(id), TRUE, RequiredMeta \ {"name"})}
ListFamily(id) ==
    LET bare == {Record(id, StoredPath(id), t, m) : t \in BOOLEAN, m \in MetaFamily}
    IN bare \cup {WithFav(r, TRUE) : r \in bare}
DownloadFamily(id) ==
    {Record(id, p, FALSE, RequiredMeta) : p \in AllPaths}

HasId(images, id) == \E i \in 1..Len(images) : images[i].id = id
\* The record the repository holds under an id it holds.
Stored(images, id) == images[CHOOSE i \in 1..Len(images) : images[i].id = id]

\* db_get_all_images(tagged): the records whose isTagged matches, in order.
DbGetAllImages(images, tagged) ==
    IF tagged = <<>> THEN images
    ELSE SelectSeq(images, LAMBDA r : r.isTagged = tagged[1])

\* db_toggle_image_favourite_status: flips the flag of the record with the id
\* in one atomic step; its result says whether a record was toggled.
DbToggleApplies(images, image_id) == HasId(images, image_id)
DbToggle(images, image_id) ==
    [i \in 1..Len(images) |->
        IF images[i].id = image_id
        THEN WithFav(images[i], ~StoredFav(images[i]))
        ELSE images[i]]

-----------------------------------------------------------------------------
(* GET / : get_all_images *)

\* ImageData(id=image["id"], ..., isFavourite=image.get("isFavourite", False))
ToImageData(image) ==
    LET m == ParseMetadata(image.metadata)
    IN IF m.raised THEN m
       ELSE Return([id |-> image.id, path |-> image.path, metadata |-> m.value,
                    isTagged |-> image.isTagged,
                    isFavourite |-> Get(image, "isFavourite", FALSE)])

\* [ImageData(...) for image in images]: the first record that fails raises.
RECURSIVE ConvertAllSkipBad(_)
ConvertAllSkipBad(images) ==
    IF images = <<>> THEN Return(<<>>)
    ELSE LET head == ToImageData(images[1])
             rest == ConvertAllSkipBad(Tail(images))
         IN IF head.raised THEN rest ELSE Return(<<head.value>> \o rest.value)
RECURSIVE ConvertAllReversed(_)
ConvertAllReversed(images) ==
    IF images = <<>> THEN Return(<<>>)
    ELSE LET head == ToImageData(images[1])
         IN IF head.raised THEN head
            ELSE LET rest == ConvertAllReversed(Tail(images))
                 IN IF rest.raised THEN rest
                    ELSE Return(rest.value \o <<head.value>>)
RECURSIVE ConvertAll(_)
ConvertAll(images) ==
    IF images = <<>> THEN Return(<<>>)
    ELSE LET head == ToImageData(images[1])
         IN IF head.raised THEN head
            ELSE LET rest == ConvertAll(Tail(images))
                 IN IF rest.raised THEN rest
                    ELSE Return(<<head.value>> \o rest.value)

\* The argument of db_get_all_images(tagged=tagged).
ListDbArg(tagged) == tagged

\* The try block of get_all_images, given what the repository returned.
GetAllImagesTry(images) ==
    LET image_data == ConvertAll(images)
    IN IF image_data.raised THEN image_data
       ELSE Return([success |-> TRUE, count |-> Len(image_data.value),
                    data |-> image_data.value])

\* except Exception: raise HTTPException(500, ...); the handler logs nothing.
GetAllImagesExcept(out) ==
    IF out.raised
    THEN [status |-> 500, body |-> [success |-> FALSE, error |-> "Internal server error"],
          events |-> <<"respond">>]
    ELSE [status |-> 200, body |-> out.value, events |-> <<"respond">>]

GetAllImages(tagged, dbRaises) ==
    /\ FreeWorker
    /\ LET dbArg == ListDbArg(tagged)
           images == IF dbRaises THEN <<>> ELSE DbGetAllImages(repo, dbArg)
           out == IF dbRaises THEN Raise("Exception", 0) ELSE GetAllImagesTry(images)
           r == GetAllImagesExcept(out)
       IN /\ resp' = [kind |-> "list", tagged |-> tagged, status |-> r.status,
                      body |-> r.body, events |-> r.events,
                      dbArg |-> dbArg, images |-> images, dbRaised |-> dbRaises]
          /\ hist' = <<>>
          /\ calls' = InterruptAll(calls)
          /\ UNCHANGED <<repo, used, disk>>

-----------------------------------------------------------------------------
(* GET /download/{image_id} : download_image *)

\* The try block of download_image: its outcome and the log lines it wrote.
DownloadTry(images, files, image_id) ==
    LET image == FindById(images, image_id)
    IN IF image = None
       THEN [out |-> Raise("HTTPException", 404), events |-> <<"info", "error">>]
       ELSE IF image.path \notin files
       THEN [out |-> Raise("HTTPException", 404), events |-> <<"info", "info", "error">>]
       ELSE [out |-> Return([path |-> image.path, filename |-> FilenameOf(image.path)]),
             events |-> <<"info", "info">>]

\* except HTTPException as he: raise he / except Exception: log, raise 500
DownloadExceptCatchAll(t) ==
    IF t.out.raised
    THEN [status |-> 500, body |-> [detail |-> "Internal server error"],
          events |-> t.events \o <<"error", "respond">>]
    ELSE [status |-> 200, body |-> t.out.value, events |-> t.events \o <<"respond">>]
DownloadExcept(t) ==
    IF ~t.out.raised
    THEN [status |-> 200, body |-> t.out.value, events |-> t.events \o <<"respond">>]
    ELSE IF t.out.type = "HTTPException"
    THEN [status |-> t.out.status, body |-> [detail |-> "not found"],
          events |-> t.events \o <<"respond">>]
    ELSE [status |-> 500, body |-> [detail |-> "Internal server error"],
          events |-> t.events \o <<"error", "respond">>]

DownloadImage(image_id, dbRaises) ==
    /\ FreeWorker
    /\ LET t == IF dbRaises
                THEN [out |-> Raise("Exception", 0), events |-> <<"info">>]
                ELSE DownloadTry(DbGetAllImages(repo, <<>>), disk, image_id)
           r == DownloadExcept(t)
           found == HasId(repo, image_id)
       IN /\ resp' = [kind |-> "download", image_id |-> image_id, status |-> r.status,
                      body |-> r.body, events |-> r.events, dbRaised |-> dbRaises,
                      found |-> found,
                      stored |-> IF found THEN <<Stored(repo, image_id)>> ELSE <<>>,
                      files |-> disk]
          /\ hist' = <<>>
          /\ calls' = InterruptAll(calls)
          /\ UNCHANGED <<repo, used, disk>>

-----------------------------------------------------------------------------
(* POST /toggle-favourite : toggle_favourite *)

\* return {"success": True, "image_id": image_id,
\*         "isFavourite": image.get("isFavourite", False)}
\* image is None when the re-read has no such record: None has no .get.
ToggleResultNoneSafe(image, image_id) ==
    Return([success |-> TRUE, image_id |-> image_id,
            isFavourite |-> IF image = None THEN FALSE
                            ELSE Get(image, "isFavourite", FALSE)])
ToggleResultEcho(image, image_id) ==
    IF image = None THEN Raise("AttributeError", 0)
    ELSE Return([success |-> TRUE, image_id |-> image_id, isFavourite |-> TRUE])
ToggleResult(image, image_id) ==
    IF image = None THEN Raise("AttributeError", 0)
    ELSE Return([success |-> TRUE, image_id |-> image_id,
                 isFavourite |-> Get(image, "isFavourite", FALSE)])

\* except Exception as e: logger.error(...); raise HTTPException(500, ...)
\* HTTPException is an Exception: the 404 raised inside the try is caught too.
ToggleExcept(out) ==
    IF out.raised
    THEN [status |-> 500, body |-> [detail |-> "Internal server error"],
          events |-> <<"error", "respond">>]
    ELSE [status |-> 200, body |-> out.value, events |-> <<"respond">>]

\* The locals of a call after its toggle step, and what is noted of it: pre,
\* the flag its record held before the toggle; flips, whether the toggles other
\* calls have applied to the record since are odd in number; solo, whether no
\* step of anything else has run since.
Call(image_id, pre) ==
    [image_id |-> image_id, pre |-> pre, flips |-> FALSE, solo |-> TRUE]

\* The events hist keeps: a call's repository toggle, and its response.
ToggleEvent(image_id, pre) ==
    [op |-> "toggle", image_id |-> image_id, pre |-> pre]
RespondEvent(call, r, dbRaises) ==
    [op |-> "respond", image_id |-> call.image_id, pre |-> call.pre,
     status |-> r.status,
     ret |-> IF r.status = 200 THEN <<r.body.isFavourite>> ELSE <<>>,
     dbRaised |-> dbRaises]

\* hist is the run of toggle calls the execution ends with that ran one after
\* the other on one id, each with no step of anything else between its toggle
\* and its response, cut to its last two calls.  Any other step empties it.
TrackToggle(h, e) ==
    IF Len(h) \in {2, 4} /\ h[Len(h)].image_id = e.image_id
    THEN <<h[Len(h) - 1], h[Len(h)], e>>
    ELSE <<e>>
TrackRespond(h, e, solo) == IF solo THEN Append(h, e) ELSE <<>>

\* Lines 102-108: the repository toggle, and the 404 when it did not apply.
ToggleFavourite(image_id, dbRaises) ==
    /\ FreeWorker
    /\ LET success == ~dbRaises /\ DbToggleApplies(repo, image_id)
           out == IF dbRaises THEN Raise("Exception", 0)
                  ELSE Raise("HTTPException", 404)
           r == ToggleExcept(out)
       IN IF success
          THEN LET pre == StoredFav(Stored(repo, image_id))
               IN /\ repo' = DbToggle(repo, image_id)
                  /\ calls' = OvertakeAll(calls, image_id)
                                 (+) SetToBag({Call(image_id, pre)})
                  /\ hist' = TrackToggle(hist, ToggleEvent(image_id, pre))
                  /\ resp' = NoResponse
                  /\ UNCHANGED <<used, disk>>
          ELSE /\ resp' = [kind |-> "toggle", image_id |-> image_id,
                           status |-> r.status, body |-> r.body, events |-> r.events,
                           dbRaised |-> dbRaises, success |-> FALSE,
                           pre |-> FALSE, flips |-> FALSE, image |-> None]
               /\ calls' = InterruptAll(calls)
               /\ hist' = <<>>
               /\ UNCHANGED <<repo, used, disk>>

\* Lines 109-121: the re-read of the list, and the response.
ToggleRefetch(call, dbRaises) ==
    /\ BagIn(call, calls)
    /\ LET image_id == call.image_id
           image == IF dbRaises THEN None
                    ELSE FindById(DbGetAllImages(repo, <<>>), image_id)
           out == IF dbRaises THEN Raise("Exception", 0)
                  ELSE ToggleResult(image, image_id)
           r == ToggleExcept(out)
       IN /\ resp' = [kind |-> "toggle", image_id |-> image_id,
                      status |-> r.status, body |-> r.body, events |-> r.events,
                      dbRaised |-> dbRaises, success |-> TRUE,
                      pre |-> call.pre, flips |-> call.flips,
                      image |-> IF HasId(repo, image_id)
                                THEN Stored(repo, image_id) ELSE None]
          /\ hist' = TrackRespond(hist, RespondEvent(call, r, dbRaises), call.solo)
    /\ calls' = InterruptAll(calls (-) SetToBag({call}))
    /\ UNCHANGED <<repo, used, disk>>

-----------------------------------------------------------------------------
(* The other writers of the repository and of the filesystem *)

\* Ingestion stores a new record, after the others, and its file.  An id is
\* unique across the store for good: a deleted record's id is not given again.
Ingest(rec, cap) ==
    /\ Len(repo) < cap
    /\ rec.id \notin used
    /\ repo' = Append(repo, rec)
    /\ used' = used \cup {rec.id}
    /\ disk' = disk \cup {rec.path}
    /\ hist' = <<>>
    /\ resp' = NoResponse
    /\ calls' = InterruptAll(calls)

\* A record is deleted, with its file.
DeleteImage(id) ==
    /\ HasId(repo, id)
    /\ repo' = SelectSeq(repo, LAMBDA r : r.id # id)
    /\ disk' = disk \ {r.path : r \in {repo[i] : i \in {j \in 1..Len(repo) : repo[j].id = id}}}
    /\ hist' = <<>>
    /\ resp' = NoResponse
    /\ calls' = InterruptAll(calls)
    /\ UNCHANGED used

\* The file of a record disappears from the disk while the record stays.
RemoveFile(i) ==
    /\ i \in 1..Len(repo)
    /\ repo[i].path \in disk
    /\ disk' = disk \ {repo[i].path}
    /\ hist' = <<>>
    /\ resp' = NoResponse
    /\ calls' = InterruptAll(calls)
    /\ UNCHANGED <<repo, used>>

-----------------------------------------------------------------------------
(* The specification *)

Init ==
    /\ repo = <<>>
    /\ used = {}
    /\ disk = {}
    /\ calls = EmptyBag
    /\ resp = NoResponse
    /\ hist = <<>>

Filters == {<<>>, <<TRUE>>, <<FALSE>>}

\* The three routes over one repository.
Next ==
    \/ \E tagged \in Filters, dbRaises \in BOOLEAN : GetAllImages(tagged, dbRaises)
    \/ \E image_id \in RequestIds, dbRaises \in BOOLEAN :
          ToggleFavourite(image_id, dbRaises)
    \/ \E call \in BagToSet(calls), dbRaises \in BOOLEAN : ToggleRefetch(call, dbRaises)
    \/ \E image_id \in RequestIds, dbRaises \in BOOLEAN :
          DownloadImage(image_id, dbRaises)
    \/ \E id \in Ids : \E rec \in CoreFamily(id) : Ingest(rec, MaxImages)
    \/ \E id \in Ids : DeleteImage(id)
    \/ \E i \in 1..MaxImages : RemoveFile(i)

Spec == Init /\ [][Next]_vars

\* POST /toggle-favourite alone, under concurrent workers and writers.
NextToggle ==
    \/ \E image_id \in RequestIds, dbRaises \in BOOLEAN :
          ToggleFavourite(image_id, dbRaises)
    \/ \E call \in BagToSet(calls), dbRaises \in BOOLEAN : ToggleRefetch(call, dbRaises)
    \/ \E id \in Ids : \E rec \in ToggleFamily(id) : Ingest(rec, MaxImages)
    \/ \E id \in Ids : DeleteImage(id)

SpecToggle == Init /\ [][NextToggle]_vars

\* GET / alone, over longer lists of more kinds of record.
NextList ==
    \/ \E tagged \in Filters, dbRaises \in BOOLEAN : GetAllImages(tagged, dbRaises)
    \/ \E id \in 1..MaxListed : \E rec \in ListFamily(id) : Ingest(rec, MaxListed)
    \/ \E id \in 1..MaxListed : DeleteImage(id)

SpecList == Init /\ [][NextList]_vars

\* The isFavourite flag alone: the two routes that report it.
NextFav ==
    \/ \E tagged \in Filters, dbRaises \in BOOLEAN : GetAllImages(tagged, dbRaises)
    \/ \E image_id \in RequestIds, dbRaises \in BOOLEAN :
          ToggleFavourite(image_id, dbRaises)
    \/ \E call \in BagToSet(calls), dbRaises \in BOOLEAN : ToggleRefetch(call, dbRaises)
    \/ \E id \in Ids : \E rec \in ToggleFamily(id) : Ingest(rec, MaxImages)
    \/ \E id \in Ids : DeleteImage(id)

SpecFav == Init /\ [][NextFav]_vars

\* GET /download/{image_id} alone, from a repository that holds nothing or one
\* record of any stored path, with its file or without.
InitDownload ==
    /\ \E id \in Ids : \E rec \in DownloadFamily(id) :
          /\ repo \in {<<>>, <<rec>>}
          /\ used = {id}
          /\ disk \in {{}, {rec.path}}
    /\ calls = EmptyBag
    /\ resp = NoResponse
    /\ hist = <<>>

NextDownload ==
    \/ \E image_id \in RequestIds, dbRaises \in BOOLEAN :
          DownloadImage(image_id, dbRaises)
    \/ \E id \in Ids : DeleteImage(id)
    \/ \E i \in 1..MaxImages : RemoveFile(i)

SpecDownload == InitDownload /\ [][NextDownload]_vars

-----------------------------------------------------------------------------
(* Properties *)

IsToggle == resp.kind = "toggle"
IsList == resp.kind = "list"
IsDownload == resp.kind = "download"

\* C1: a toggle-favourite call whose image_id the repository does not know
\* (the repository's toggle returns false) ends with 404, never with 500.
C1_UnknownIdIsNotFound ==
    (IsToggle /\ ~resp.dbRaised /\ ~resp.success) => resp.status = 404

\* hist holds two toggle calls on one id, the second started after the first
\* responded, with no step of anything else from the first call's toggle on.
BackToBack ==
    /\ Len(hist) = 4
    /\ hist[1].op = "toggle" /\ hist[2].op = "respond" /\ hist[2].pre = hist[1].pre
    /\ hist[3].op = "toggle" /\ hist[4].op = "respond" /\ hist[4].pre = hist[3].pre
    /\ \A i \in 2..4 : hist[i].image_id = hist[1].image_id
    /\ ~hist[2].dbRaised /\ ~hist[4].dbRaised

\* C2: two successive toggle-favourite calls on an existing id, with no other
\* call in between and a repository that answers, both succeed; the first
\* returns the negation of the starting isFavourite value, the second the
\* starting value again.
C2_ToggleTwiceRestores ==
    BackToBack =>
        /\ hist[2].status = 200 /\ hist[2].ret = <<~hist[1].pre>>
        /\ hist[4].status = 200 /\ hist[4].ret = <<hist[1].pre>>

\* Two calls, one after the other, on the second of two records, from true.
C2_Witness ==
    /\ BackToBack
    /\ hist[1].pre
    /\ Len(repo) = 2 /\ repo[2].id = hist[1].image_id

\* C3, as claimed: the isFavourite value a successful toggle-favourite call
\* returns is the negation of the value the record held immediately before
\* that call's own repository toggle, in every interleaving of toggle calls.
C3_ReturnsOwnPostToggleValue ==
    (IsToggle /\ resp.status = 200) => resp.body.isFavourite = ~resp.pre

\* C3, amended: the value returned is the one the record holds at the call's
\* re-read: the negation of the value it held before the call's own toggle
\* when the other calls' toggles applied to the id in between are even in
\* number (none included), and that value itself when they are odd.
C3_ReturnsValueAtReread ==
    (IsToggle /\ resp.status = 200) =>
        resp.body.isFavourite = (IF resp.flips THEN resp.pre ELSE ~resp.pre)

\* A call that another worker's toggle overtook responds.
C3_Witness == IsToggle /\ resp.status = 200 /\ resp.flips

\* C4: in every successful list response and every successful
\* toggle-favourite response isFavourite is present and a boolean, and it is
\* false for a repository record that lacks the field.
C4_IsFavouriteAlwaysBoolean ==
    /\ (IsList /\ resp.status = 200) =>
          \A i \in 1..Len(resp.body.data) :
             /\ "isFavourite" \in DOMAIN resp.body.data[i]
             /\ resp.body.data[i].isFavourite \in BOOLEAN
             /\ "isFavourite" \notin DOMAIN resp.images[i] =>
                   resp.body.data[i].isFavourite = FALSE
    /\ (IsToggle /\ resp.status = 200) =>
          /\ "isFavourite" \in DOMAIN resp.body
          /\ resp.body.isFavourite \in BOOLEAN
          /\ "isFavourite" \notin DOMAIN resp.image => resp.body.isFavourite = FALSE

\* A list response over a record without the field and one with it set.
C4_Witness ==
    /\ IsList /\ resp.status = 200
    /\ \E i, j \in 1..Len(resp.images) :
          /\ "isFavourite" \notin DOMAIN resp.images[i]
          /\ "isFavourite" \in DOMAIN resp.images[j] /\ resp.images[j].isFavourite

\* Whether the metadata of some record the repository returned fails to normalize.
SomeRecordFails(images) ==
    \E i \in 1..Len(images) : ~(RequiredMeta \subseteq images[i].metadata)

\* C5: the list operation is all-or-nothing: when the repository call fails or
\* the metadata of any one returned record fails normalization, wherever the
\* record is, the call ends with 500 and no image data; otherwise it succeeds.
C5_ListAllOrNothing ==
    IsList =>
        IF resp.dbRaised \/ SomeRecordFails(resp.images)
        THEN resp.status = 500 /\ "data" \notin DOMAIN resp.body
        ELSE resp.status = 200 /\ "data" \in DOMAIN resp.body

\* Only the last of three returned records fails.
C5_Witness ==
    /\ IsList /\ ~resp.dbRaised /\ Len(resp.images) = 3
    /\ ~SomeRecordFails(SubSeq(resp.images, 1, 2))
    /\ SomeRecordFails(resp.images)
    /\ resp.status = 500

\* C6: a successful list call passes its tagged filter unchanged to the
\* repository and returns exactly one image per record the repository
\* returned, in the same order and with the same id.
C6_ListPreservesRepositoryOrder ==
    (IsList /\ resp.status = 200) =>
        /\ resp.dbArg = resp.tagged
        /\ Len(resp.body.data) = Len(resp.images)
        /\ \A i \in 1..Len(resp.images) : resp.body.data[i].id = resp.images[i].id

\* A filtered call that returns two of three records, not in id order.
C6_Witness ==
    /\ IsList /\ resp.status = 200 /\ resp.tagged = <<TRUE>>
    /\ Len(repo) = 3 /\ Len(resp.images) = 2
    /\ resp.images[1].id > resp.images[2].id

\* C7: a download call ends with 404, not 500, when no record has the id and
\* when the record's stored path does not exist on disk; it ends with the
\* file response only when the record exists and its path exists.
C7_DownloadNotFoundIs404 ==
    (IsDownload /\ ~resp.dbRaised) =>
        LET onDisk == resp.found /\ resp.stored[1].path \in resp.files
        IN /\ ~resp.found => resp.status = 404
           /\ (resp.found /\ ~onDisk) => resp.status = 404
           /\ resp.status = 200 <=> onDisk

\* The record exists and its file does not.
C7_Witness ==
    /\ IsDownload /\ ~resp.dbRaised /\ resp.found
    /\ resp.stored[1].path \notin resp.files
    /\ resp.status = 404

\* An error log event precedes the response event.
LoggedBeforeResponding(events) ==
    \E i, j \in 1..Len(events) : i < j /\ events[i] = "error" /\ events[j] = "respond"

\* C8: on every execution of any of the three endpoints that ends in an
\* error response, a log event for the failure occurs before the response.
C8_ErrorResponsesAreLogged ==
    resp.status >= 400 => LoggedBeforeResponding(resp.events)

\* The part of a path after its last separator of either kind.
LastSegment(p) ==
    LET seps == {i \in 1..Len(p) : p[i] \in {Sep, BackSep}}
        last == IF seps = {} THEN 0 ELSE CHOOSE i \in seps : \A j \in seps : j <= i
    IN [k \in 1..(Len(p) - last) |-> p[last + k]]

\* C9: for a successful download the suggested filename is the last segment
\* of the stored path under either separator, and holds no separator.
C9_FilenameIsLastSegment ==
    (IsDownload /\ resp.status = 200) =>
        /\ resp.body.filename = LastSegment(resp.body.path)
        /\ \A i \in 1..Len(resp.body.filename) :
              resp.body.filename[i] \notin {Sep, BackSep}

\* A served path that mixes both separators before its last segment.
C9_Witness ==
    /\ IsDownload /\ resp.status = 200
    /\ \E i, j \in 1..Len(resp.body.path) :
          resp.body.path[i] = Sep /\ resp.body.path[j] = BackSep
    /\ resp.body.filename # <<>>

\* C10: when the repository's toggle succeeded and the image is not in the
\* repository's list at the re-read, the call ends with 500, never with a
\* success response or 404.
C10_RefetchMissIsInternalError ==
    (IsToggle /\ resp.success /\ resp.image = None) => resp.status = 500

\* The record was deleted between the toggle and the re-read, which answered.
C10_Witness ==
    IsToggle /\ resp.success /\ ~resp.dbRaised /\ resp.image = None

====
